---- MODULE Spec2Model ----
(***************************************************************************)
(* cyclic-form: the Form component of src/src/index.ts (the current        *)
(* version, lines 365-571) as a state machine.                             *)
(*                                                                         *)
(* One Form instantiation is modelled (SpecPeer adds the touched set of a  *)
(* second one).  Its state is the closure state of                         *)
(* Form (touchedKeys, the one-shot touch listeners), the latest value of   *)
(* each source stream (state.stream, renderer$, validators$), the latest   *)
(* emission of the remembered vnode$ and, per step, what the step put on   *)
(* submission$.  The DOM side is the form element and the flag             *)
(* didInjectSubmitListenerForCyclicForm the code keeps on it.              *)
(*                                                                         *)
(* The specifications share the definitions:                               *)
(*   Spec         the render pipeline and the touched tracker              *)
(*   SpecListen   Spec, with listeners added late to the DOM sink          *)
(*   SpecNames    Spec, for a declaration with the field toString          *)
(*   SpecSubmit   the submission stream (custom keybinds, native submit)   *)
(*   SpecValidity the submission stream of a form that renders             *)
(*   SpecMerge    the state-update stream: per-field reducers folded by    *)
(*                the host over the Values object                          *)
(*   SpecEvolve   evolveC as a function of its arguments                   *)
(*   SpecTag      totalIsolateVNode as a function of its arguments         *)
(*   SpecLifetime the form after the listeners of its sinks are removed    *)
(*   SpecThrow    Spec, under validators that throw                        *)
(*   SpecCall     the call of Form itself, for several declarations        *)
(*   SpecPeer     two instantiations of one form component                 *)
(*   SpecGate     the touched tracker of a form that has rendered          *)
(*   SpecShared   the form on an input source without isolateSource        *)
(*                                                                         *)
(* Object keys are field names of a form declaration.  Property lookups    *)
(* on object literals (transformations[key], validators[key]) see the      *)
(* members inherited from Object.prototype; toString stands for them in    *)
(* the input sets.                                                         *)
(***************************************************************************)
EXTENDS Integers, Sequences, FiniteSets, TLC

VARIABLES
    fields,       \* the field-module mapping form() was called with
    hasIsolate,   \* typeof DOM.isolateSource === 'function'
    options,      \* the options form() was called with
    values,       \* latest emission of state.stream, or NotEmitted
    renderer,     \* latest emission of renderer$, or "notEmitted"
    validators,   \* latest emission of validators$, or NotEmitted
    touchedKeys,  \* let touchedKeys = new Set()
    gate,         \* fields whose take(1) touch listener has not fired yet
    allUntouched, \* history: untouch$ delivered null and no touch listener
                  \* has fired since
    render,       \* latest emission of vnode$ (remembered), or NoRender
    dispatched,   \* SpecSubmit: the keydown or submit event the browser
                  \* dispatched in the latest step, or NoEvent
    submission,   \* the events the latest step emitted on submission$
    formEl,       \* the element DOM.select('form').element() emitted last
    injected,     \* elements carrying didInjectSubmitListenerForCyclicForm
    bound,        \* per element, its native listeners that feed this submit$
    pending,      \* SpecMerge: endos each field's intent has still to emit
    idPending,    \* SpecMerge: fields whose Stream.of(id) has still to emit
    values0,      \* SpecMerge: the Values object the fold started from
    queues0,      \* SpecMerge: the endos each field's intent emits in all
    emitted,      \* the renders the latest step emitted on vnode$
    layoutCalls,  \* the calls of the layout function in the latest step
    replayed,     \* what a listener added to vnode$ in the latest step was
                  \* handed at once
    evolveArgs,   \* SpecEvolve: the arguments of a call of evolveC
    evolveResult, \* SpecEvolve: the arguments as they are after the call, and
                  \* what it returned
    calls,        \* SpecTag: the calls of totalIsolateVNode so far
    formResult,   \* what the call of Form did: returned its sinks, or threw
    intentCalls,  \* the calls of the fields' intents that call made, in order
    listeners,    \* the streams of its sources Form's own listeners are on
    subscribers,  \* the sinks of the form that have a listener
    peer,         \* SpecPeer: touchedKeys and the touch listeners of a second
                  \* instantiation of the same component
    failed        \* vnode$ was handed an error and was torn down

vars == <<fields, hasIsolate, options, values, renderer, validators, touchedKeys, gate,
          allUntouched, render, dispatched, submission, formEl, injected, bound,
          pending, idPending, values0, queues0, emitted, layoutCalls, replayed,
          evolveArgs, evolveResult, calls, formResult, intentCalls, listeners,
          subscribers, peer, failed>>

configVars == <<fields, hasIsolate, options>>
streamVars == <<values, renderer, validators>>
touchVars  == <<touchedKeys, gate, allUntouched>>
domVars    == <<dispatched, formEl, injected, bound>>
mergeVars  == <<pending, idPending, values0, queues0>>
callVars   == <<emitted, layoutCalls, replayed>>
pureVars   == <<evolveArgs, evolveResult, calls>>
instVars   == <<formResult, intentCalls, listeners, subscribers, peer>>

----------------------------------------------------------------------------
(* Bounds *)

\* SpecMerge: the most updates one field's intent emits
MaxUpdates == 2

----------------------------------------------------------------------------
(* The form declaration under analysis and the input sets *)

\* fields: FieldsFor<Decl>.  age is an ordinary field, description asks for
\* the raw DOM source (shouldNotIsolate), memo is declared with no module.
\* The view of description renders nothing for a negative value.
\* intent is what calling the module's intent member does: it returns a
\* stream of endos ("endo$"), or it throws, or the module has no such member
\* ("undefined": a module of the function shape AnyEffectField).
\* otherSinks are the sink channels a module of that shape returns beyond
\* state and DOM.
DeclaredFields ==
    [age         |-> [module |-> TRUE,  shouldNotIsolate |-> FALSE, view |-> "always",
                      intent |-> "endo$", otherSinks |-> {}],
     description |-> [module |-> TRUE,  shouldNotIsolate |-> TRUE,
                      view |-> "positiveOnly",
                      intent |-> "endo$", otherSinks |-> {}],
     memo        |-> [module |-> FALSE, shouldNotIsolate |-> FALSE, view |-> "none",
                      intent |-> "undefined", otherSinks |-> {}]]

\* a declaration with a field whose name is also the name of a member of
\* Object.prototype
InheritedNameFields ==
    [age      |-> [module |-> TRUE, shouldNotIsolate |-> FALSE, view |-> "always",
                   intent |-> "endo$", otherSinks |-> {}],
     toString |-> [module |-> TRUE, shouldNotIsolate |-> FALSE, view |-> "always",
                   intent |-> "endo$", otherSinks |-> {}]]

\* a declaration in which the intent of the second field throws
ThrowingIntentFields ==
    [DeclaredFields EXCEPT !["description"].intent = "throws",
                           !["memo"] = DeclaredFields["age"]]

\* a declaration in which the second field is a module of the function
\* shape, which returns the sink channel HTTP beside state and DOM
AnyEffectFields ==
    [DeclaredFields EXCEPT !["description"].intent = "undefined",
                           !["description"].otherSinks = {"HTTP"}]

\* Object.keys(fields), as a set and in enumeration order
FieldNames == DOMAIN fields
FieldOrder ==
    IF "toString" \in DOMAIN fields THEN <<"age", "toString">>
    ELSE <<"age", "description", "memo">>

\* field values
Vals == {-1, 1}

\* the names an object literal inherits from Object.prototype, among the
\* keys of the input sets
InheritedNames == {"toString"}

\* Object.prototype.toString called as a plain function, f(x): its result
\* does not depend on x
ObjectPrototypeToString(x) == "[object Undefined]"

\* field values that are no numbers, written as numbers of their own: the
\* string above, and NaN
StringValue(s) == 100
NaN == 101

\* Endo<T>: the functions an intent emits, x => -x and _ => 1
Endos == {"neg", "set1"}

ApplyEndo(endo, x) ==
    CASE endo = "neg"  -> IF x \in Vals THEN 0 - x ELSE NaN
      [] endo = "set1" -> 1

\* id = x => x
id(x) == x

\* Validator results: null, a message, and the empty message
Null == "<null>"
EmptyString == ""

\* what stands for the result of a call that throws
Thrown == "<thrown>"

\* Validator<T, Err>: the validators of the input mappings; the third
\* throws for a negative value
ApplyValidator(validator, value) ==
    CASE validator = "nonNegative" ->
            IF value \in Vals /\ value < 0 THEN "negative" ELSE Null
      [] validator = "quiet" ->
            IF value \in Vals /\ value < 0 THEN EmptyString ELSE Null
      [] validator = "throwing" ->
            IF value \in Vals /\ value < 0 THEN Thrown ELSE Null

\* the emissions of validators$ (ValidatorsFor<Decl>: every key optional)
ValidatorInputs ==
    IF "toString" \in DOMAIN fields
    THEN { <<>>,
           [age |-> "nonNegative"],
           [toString |-> "nonNegative"] }
    ELSE { <<>>,
           [age |-> "nonNegative"],
           [age |-> "quiet"],
           [age |-> "nonNegative", memo |-> "nonNegative"],
           [age |-> "quiet", description |-> "nonNegative"] }

\* the emissions of state.stream
StateInputs == [FieldNames -> Vals]

\* the emissions of renderer$
RendererInputs == {"layout"}

NotEmitted == [notEmitted |-> TRUE]
NoRender == [rendered |-> FALSE]

\* untouch$: Stream<keyof Decl | null>
NullKey == "<null>"
UntouchInputs == FieldNames \cup {NullKey}

\* DOM scopes: the form's own namespace and one total scope per field
Root == "<root>"
Scopes == FieldNames \cup {Root}

\* (DOM as MainDOMSource).namespace of the form
Namespace == <<[type |-> "total", scope |-> "form"]>>

\* DOM events of the touch tracker's types, and one of another type
TouchTypes == {"change", "focus", "input"}
FieldEvents ==
    {[type |-> t, scope |-> s] : t \in {"change", "focus", "blur"}, s \in Scopes}
    \cup {[type |-> "input", scope |-> s, endo |-> e] : s \in Scopes, e \in Endos}

\* keydown events, and the form elements the DOM may hold
KeyEvents ==
    [type : {"keydown"}, scope : Scopes, key : {"Enter", "a"},
     ctrlKey : BOOLEAN, metaKey : BOOLEAN]
NoEvent == [type |-> "none"]
Elements == {"form1", "form2"}

\* no element has a native submit listener of this form
NoNativeListener == [el \in Elements |-> 0]

\* the options form() is called with; the first is the default of line 367
DefaultOptions == [fields |-> {}, predicate |-> "defaultPredicate"]
OptionInputs ==
    { DefaultOptions,
      [fields |-> {"description"}, predicate |-> "ctrlEnter"],
      [fields |-> {"age", "description"}, predicate |-> "defaultPredicate"] }

----------------------------------------------------------------------------
(* Isolation of the DOM source *)

\* isolateSource(DOM, key): the source scoped to key, or, when the DOM
\* source has no isolateSource, the source itself
isolateSource(key) == IF hasIsolate THEN key ELSE Root

\* whether a listener on `source` is handed the event: a totally isolated
\* source sees the events of its own scope only; sources that are all the
\* same object see every event
\* mutant: the shared source hands out only the events of its own scope
VisibleInOwnScope(source, ev) == source = ev.scope

Visible(source, ev) == (~hasIsolate) \/ source = ev.scope

----------------------------------------------------------------------------
(* evolveC and the reducers of the state sink *)

\* evolveC(transformations)(struct)
\* f = transformations[key] is the own property, else the member inherited
\* from Object.prototype, else undefined
evolveC(transformations, struct) ==
    [key \in DOMAIN struct |->
        IF key \in DOMAIN transformations
        THEN ApplyEndo(transformations[key], struct[key])
        ELSE IF key \in InheritedNames
        THEN StringValue(ObjectPrototypeToString(struct[key]))
        ELSE struct[key]]

\* endo$.map(endo => evolveC({[key]: endo})), and Stream.of(id)
FieldReducer(key, endo) == [kind |-> "evolveC", transformations |-> (key :> endo)]
IdReducer == [kind |-> "id"]

\* calling a reducer, as the host's fold over the state does
ApplyReducer(reducer, struct) ==
    IF reducer.kind = "id" THEN id(struct)
    ELSE evolveC(reducer.transformations, struct)

----------------------------------------------------------------------------
(* The render: combined$.map(...) *)

\* validators[key] is truthy: an own property or an inherited member
HasValidator(vds, key) == key \in DOMAIN vds \/ key \in InheritedNames

\* mutant: the call is in a try statement, what is caught becomes the error
ValidateCatching(vds, key, value) ==
    IF key \in DOMAIN vds
    THEN (IF ApplyValidator(vds[key], value) = Thrown THEN "error"
          ELSE ApplyValidator(vds[key], value))
    ELSE ObjectPrototypeToString(value)

\* validator(value), for validator = validators[key]
Validate(vds, key, value) ==
    IF key \in DOMAIN vds THEN ApplyValidator(vds[key], value)
    ELSE ObjectPrototypeToString(value)

\* mutant: a validator is called whether or not the field has a module
ErrorsOfEveryValidator(vals, vds) ==
    [key \in FieldNames |->
        IF ~HasValidator(vds, key) THEN Null ELSE Validate(vds, key, vals[key])]

\* mutant: every validator is handed the value of the first field
ErrorsOfFirstValue(vals, vds) ==
    [key \in FieldNames |->
        IF ~fields[key].module \/ ~HasValidator(vds, key)
        THEN Null
        ELSE Validate(vds, key, vals[FieldOrder[2]])]

\* const errors = Object.keys(fields).map(...).reduce(...)
Errors(vals, vds) ==
    [key \in FieldNames |->
        IF ~fields[key].module \/ ~HasValidator(vds, key)
        THEN Null
        ELSE Validate(vds, key, vals[key])]

\* mutant: every(e => !e), a falsy error counts as none
AllValidFalsy(errors) ==
    \A key \in DOMAIN errors : errors[key] \in {Null, EmptyString}

\* const allValid = Object.values(errors).every(e => e === null)
AllValid(errors) == \A key \in DOMAIN errors : errors[key] = Null

\* errors[key] || null
OrNull(error) == IF error \in {Null, EmptyString} THEN Null ELSE error

\* mutant: the flag tells whether the field's first event was ever seen
ViewInputEverTouched(key, vals, errors, touched) ==
    [error |-> OrNull(errors[key]), touched |-> key \notin gate, value |-> vals[key]]

\* the first argument of field.view
ViewInput(key, vals, errors, touched) ==
    [error |-> OrNull(errors[key]), touched |-> key \in touched, value |-> vals[key]]

NullNode == [kind |-> "null"]

\* a VNode: what the view was given, data.isolate and key
VNode(input, meta, isolate, key) ==
    [kind |-> "vnode", input |-> input, meta |-> meta, isolate |-> isolate, key |-> key]

\* data.isolate is no array, key is undefined
NoIsolate == [isArray |-> FALSE, scopes |-> <<>>]
NoKey == [defined |-> FALSE, value |-> ""]

\* field.view(input, {valid}): the node a view returns shows what it was
\* given and carries no key and no isolation descriptor of its own; the
\* view of a positiveOnly field returns no node for a negative value
View(key, input, meta) ==
    IF fields[key].view = "positiveOnly" /\ input.value \in Vals /\ input.value < 0
    THEN NullNode
    ELSE VNode(input, meta, NoIsolate, NoKey)

\* mutant: the string is copied as it is
EscapeNothing(s) == s

\* JSON.stringify of a string, without the quotes: " and \ are escaped
RECURSIVE EscapeJSON(_)
EscapeJSON(s) ==
    IF Len(s) = 0 THEN ""
    ELSE LET c == SubSeq(s, 1, 1)
         IN  (IF c = "\"" \/ c = "\\" THEN "\\" \o c ELSE c)
                 \o EscapeJSON(SubSeq(s, 2, Len(s)))

QuoteJSON(s) == "\"" \o EscapeJSON(s) \o "\""

\* JSON.stringify of a Scope object {type, scope}
ScopeJSON(scopeObj) ==
    "{\"type\":" \o QuoteJSON(scopeObj.type)
        \o ",\"scope\":" \o QuoteJSON(scopeObj.scope) \o "}"

RECURSIVE JoinJSON(_)
JoinJSON(scopes) ==
    IF scopes = <<>> THEN ""
    ELSE ScopeJSON(Head(scopes))
             \o (IF Tail(scopes) = <<>> THEN "" ELSE ",")
             \o JoinJSON(Tail(scopes))

\* JSON.stringify(newNode.data.isolate)
JSONStringify(scopes) == "[" \o JoinJSON(scopes) \o "]"

\* mutant: the check of node is skipped, an absent node is tagged too
totalIsolateVNodeOfAbsent(node, namespace, scope) ==
    LET scopes == Append(namespace, [type |-> "total", scope |-> scope])
    IN  VNode(<<>>, <<>>, [isArray |-> TRUE, scopes |-> scopes],
              [defined |-> TRUE, value |-> JSONStringify(scopes)])

\* mutant: data.isolate is always set to namespace.concat([scopeObj])
totalIsolateVNodeOverwriting(node, namespace, scope) ==
    IF node.kind = "null" THEN node
    ELSE LET scopes == Append(namespace, [type |-> "total", scope |-> scope])
         IN  [node EXCEPT !.isolate = [isArray |-> TRUE, scopes |-> scopes],
                          !.key = IF node.key.defined THEN node.key
                                  ELSE [defined |-> TRUE,
                                        value |-> JSONStringify(scopes)]]

\* totalIsolateVNode(node, namespace, scope)
totalIsolateVNode(node, namespace, scope) ==
    IF node.kind = "null" THEN node
    ELSE LET scopeObj == [type |-> "total", scope |-> scope]
             isolate  == IF ~node.isolate.isArray
                         THEN [isArray |-> TRUE, scopes |-> Append(namespace, scopeObj)]
                         ELSE node.isolate
             newNode  == [node EXCEPT !.isolate = isolate]
         IN  [newNode EXCEPT !.key =
                 IF newNode.key.defined THEN newNode.key
                 ELSE [defined |-> TRUE, value |-> JSONStringify(isolate.scopes)]]

\* mutant: the record holds the fields with a module only
VNodesOfModules(vals, errors, allValid, touched) ==
    [key \in {k \in FieldNames : fields[k].module} |->
        totalIsolateVNode(
            View(key, ViewInput(key, vals, errors, touched), [valid |-> allValid]),
            Namespace, key)]

\* const vnodes = Object.keys(fields).map(...).reduce(...)
VNodes(vals, errors, allValid, touched) ==
    [key \in FieldNames |->
        IF ~fields[key].module THEN NullNode
        ELSE totalIsolateVNode(
                 View(key, ViewInput(key, vals, errors, touched), [valid |-> allValid]),
                 Namespace, key)]

\* the calls of field.view in one render: the arguments and the node returned
ViewCalls(vals, errors, allValid, touched) ==
    [key \in {k \in FieldNames : fields[k].module} |->
        [input    |-> ViewInput(key, vals, errors, touched),
         meta     |-> [valid |-> allValid],
         returned |-> View(key, ViewInput(key, vals, errors, touched),
                           [valid |-> allValid])]]

\* renderer(vnodes): the tree a layout function returns shows the layout
\* that made it and the record it was made from
Layout(rend, vnodes) == [renderer |-> rend, vnodes |-> vnodes]

\* one emission of vnode$: the errors and the validity flag it computed, the
\* calls of the views and of the layout function, and renderer(vnodes)
RenderOf(vals, rend, vds, touched) ==
    LET errors   == Errors(vals, vds)
        allValid == AllValid(errors)
        vnodes   == VNodes(vals, errors, allValid, touched)
    IN  [rendered   |-> TRUE,
         errors     |-> errors,
         allValid   |-> allValid,
         viewCalls  |-> ViewCalls(vals, errors, allValid, touched),
         layoutCall |-> [renderer |-> rend, vnodes |-> vnodes],
         vnode      |-> Layout(rend, vnodes)]

\* Stream.combine(state.stream, renderer$, validators$) emits once each of
\* the three has emitted; vnode$ remembers the latest render
\* mutant: combined$ does not wait for validators$
ReadyWithoutValidators(vals, rend, vds) ==
    vals # NotEmitted /\ rend # "notEmitted"

\* combined$ emits, and vnode$ with it, once each of the three has a value
Ready(vals, rend, vds) ==
    vals # NotEmitted /\ rend # "notEmitted" /\ vds # NotEmitted

Combined(vals, rend, vds, touched, old) ==
    IF ~Ready(vals, rend, vds) THEN old ELSE RenderOf(vals, rend, vds, touched)

\* the function given to combined$.map throws: a validator it calls does
Throws(vals, rend, vds) ==
    /\ Ready(vals, rend, vds)
    /\ \E key \in FieldNames :
          /\ fields[key].module
          /\ HasValidator(vds, key)
          /\ Validate(vds, key, vals[key]) = Thrown

\* mutant: the render is emitted, and emitted again
EmissionTwice(vals, rend, vds, touched) ==
    IF Ready(vals, rend, vds)
    THEN <<RenderOf(vals, rend, vds, touched), RenderOf(vals, rend, vds, touched)>>
    ELSE <<>>

\* what vnode$ emits when one of the three emits
Emission(vals, rend, vds, touched) ==
    IF Ready(vals, rend, vds) THEN <<RenderOf(vals, rend, vds, touched)>> ELSE <<>>

\* the calls of the layout function that made the renders
LayoutCallsOf(renders) == [i \in DOMAIN renders |-> renders[i].layoutCall]

\* mutant: a listener added late is handed nothing
ReplayNothing(rend) == <<>>

\* .remember(): a listener added to vnode$ is handed the latest render at
\* once, when there is one
Replay(rend) == IF rend.rendered THEN <<rend>> ELSE <<>>

----------------------------------------------------------------------------
(* The call of Form *)

\* the object Form returns
Sinks == {"DOM", "state", "submission$"}

\* the streams of its sources Form adds a listener of its own to: untouch$
\* and DOM.select('form').element(); the touch listeners are in gate
FormListeners == {"untouch$", "form.element"}

\* the source field key's intent is called with
IntentSource(key) ==
    IF fields[key].shouldNotIsolate THEN Root ELSE isolateSource(key)

\* intent(domSource) throws: the intent itself does, or intent is undefined
IntentThrows(key) == fields[key].module /\ fields[key].intent # "endo$"

\* the calls of intent made by Object.keys(fields).map(...), up to the
\* first that throws
RECURSIVE IntentCallsFrom(_)
IntentCallsFrom(i) ==
    IF i > Len(FieldOrder) THEN <<>>
    ELSE LET key == FieldOrder[i]
         IN  IF ~fields[key].module THEN IntentCallsFrom(i + 1)
             ELSE <<[key |-> key, source |-> IntentSource(key),
                     threw |-> IntentThrows(key)]>>
                      \o (IF IntentThrows(key) THEN <<>> ELSE IntentCallsFrom(i + 1))

\* mutant: a module whose intent throws is passed over
FormThrowsNever == FALSE

\* no try statement is around the call of intent: Form throws what it throws
FormThrows == \E key \in FieldNames : IntentThrows(key)

\* what the call of Form does
NotCalled == [called |-> FALSE, threw |-> FALSE, sinks |-> {}]
FormResult ==
    IF FormThrows THEN [called |-> TRUE, threw |-> TRUE, sinks |-> {}]
    ELSE [called |-> TRUE, threw |-> FALSE, sinks |-> Sinks]

\* the listeners Form has added when it returns or throws: the one on the
\* form element is added after the intents were called
ListenersAdded == IF FormThrows THEN {"untouch$"} ELSE FormListeners

\* mutant: the set is made in form(), one for all calls of Form
TouchedSetOfComponent(instantiation) == 1

\* let touchedKeys = new Set() is a statement of Form: the n-th call of
\* Form makes the n-th set
TouchedSetOf(instantiation) == instantiation

\* a second instantiation that was not made
NoPeer == [made |-> FALSE, touchedKeys |-> {}, gate |-> {}]

\* the state a call of Form that returned leaves: every sink has its listener
InitInst ==
    /\ formResult = FormResult
    /\ intentCalls = IntentCallsFrom(1)
    /\ listeners = ListenersAdded
    /\ subscribers = Sinks
    /\ peer = NoPeer
    /\ failed = FALSE

----------------------------------------------------------------------------
(* Spec: the render pipeline and the touched tracker *)

\* nothing was emitted, no layout was called and no listener was added
NoListener == [added |-> FALSE, got |-> <<>>]
InitCalls ==
    /\ emitted = <<>>
    /\ layoutCalls = <<>>
    /\ replayed = NoListener

\* no call of evolveC or totalIsolateVNode was made
NoCall == [called |-> FALSE]
InitPure ==
    /\ evolveArgs = NoCall
    /\ evolveResult = NoCall
    /\ calls = <<>>

InitForm(decl, iso, opts) ==
    /\ fields = decl
    /\ hasIsolate = iso
    /\ options = opts
    /\ values = NotEmitted
    /\ renderer = "notEmitted"
    /\ validators = NotEmitted
    /\ touchedKeys = {}
    /\ gate = FieldNames
    /\ allUntouched = FALSE
    /\ render = NoRender
    /\ dispatched = NoEvent
    /\ submission = <<>>
    /\ formEl = "none"
    /\ injected = {}
    /\ bound = NoNativeListener
    /\ pending = [key \in FieldNames |-> <<>>]
    /\ idPending = {}
    /\ values0 = NotEmitted
    /\ queues0 = [key \in FieldNames |-> <<>>]
    /\ InitCalls
    /\ InitInst

InitWith(decl, iso, opts) == InitForm(decl, iso, opts) /\ InitPure

\* Spec runs the form on a MainDOMSource, which has isolateSource and a
\* namespace, with the default options
Init == InitWith(DeclaredFields, TRUE, DefaultOptions)

\* combined$ emits and the function given to map runs.  When it throws,
\* map hands the error to vnode$, which is torn down: it forgets the render
\* it remembered and emits no more
Rendering(vals, rend, vds) ==
    /\ failed' = (failed \/ Throws(vals, rend, vds))
    /\ render' = IF failed' THEN NoRender
                 ELSE Combined(vals, rend, vds, touchedKeys, render)
    /\ emitted' = IF Ready(vals, rend, vds) /\ ~failed' THEN <<render'>> ELSE <<>>
    /\ layoutCalls' = LayoutCallsOf(emitted')
    /\ replayed' = NoListener

\* state.stream emits
StateEmit(s) ==
    /\ values' = s
    /\ Rendering(s, renderer, validators)
    /\ UNCHANGED <<configVars, instVars, renderer, validators, touchVars, submission,
                   domVars, mergeVars, pureVars>>

\* renderer$ emits
RendererEmit(r) ==
    /\ renderer' = r
    /\ Rendering(values, r, validators)
    /\ UNCHANGED <<configVars, instVars, values, validators, touchVars, submission,
                   domVars, mergeVars, pureVars>>

\* validators$ emits
ValidatorsEmit(v) ==
    /\ validators' = v
    /\ Rendering(values, renderer, v)
    /\ UNCHANGED <<configVars, instVars, values, renderer, touchVars, submission,
                   domVars, mergeVars, pureVars>>

\* mutant: a signal for one key clears the whole set
UntouchedByClearsAll(key, touched) == {}

\* mutant: the null signal is treated like a key
UntouchedByKeyOnly(key, touched) == touched \ {key}

\* the listener on untouch$
UntouchedBy(key, touched) ==
    IF key = NullKey THEN {} ELSE touched \ {key}

Untouch(key) ==
    /\ touchedKeys' = UntouchedBy(key, touchedKeys)
    /\ allUntouched' = (key = NullKey \/ allUntouched)
    /\ emitted' = <<>>
    /\ layoutCalls' = <<>>
    /\ replayed' = NoListener
    /\ UNCHANGED <<configVars, instVars, failed, streamVars, gate, render, submission,
                   domVars, mergeVars, pureVars>>

\* mutant: the touch streams are not cut by take(1)
TouchingEveryEvent(ev) ==
    {key \in FieldNames : ev.type \in TouchTypes /\ Visible(isolateSource(key), ev)}

\* mutant: the touch streams are taken from the raw source
TouchingOnRawSource(ev) == {key \in gate : ev.type \in TouchTypes}

\* the fields whose merged change/focus/input stream, cut by take(1),
\* delivers the event to its listener
Touching(ev) ==
    {key \in gate : ev.type \in TouchTypes /\ Visible(isolateSource(key), ev)}

\* the listener of the touch tracker: touchedKeys.add(key)
TouchedBy(keys, touched) == touched \cup keys

\* intent(domSource): the field modules listen to input events on their
\* source and emit the endo the event carries
IntentEmits(key, ev) ==
    fields[key].module /\ ev.type = "input" /\ Visible(IntentSource(key), ev)

\* the field reducers one DOM event puts on reducer$, in the order of
\* Object.keys(fields)
RECURSIVE ReducersFrom(_, _)
ReducersFrom(i, ev) ==
    IF i > Len(FieldOrder) THEN <<>>
    ELSE (IF IntentEmits(FieldOrder[i], ev)
          THEN <<FieldReducer(FieldOrder[i], ev.endo)>>
          ELSE <<>>) \o ReducersFrom(i + 1, ev)

\* the host folds the reducers over the state, one after the other
RECURSIVE Fold(_, _)
Fold(reducers, struct) ==
    IF reducers = <<>> THEN struct
    ELSE Fold(Tail(reducers), ApplyReducer(Head(reducers), struct))

\* state.stream emits after each reducer, and vnode$ with it, until a
\* render throws
RECURSIVE RendersOfFold(_, _, _, _, _)
RendersOfFold(reducers, struct, rend, vds, touched) ==
    IF reducers = <<>> THEN <<>>
    ELSE LET next == ApplyReducer(Head(reducers), struct)
         IN  IF Throws(next, rend, vds) THEN <<>>
             ELSE Emission(next, rend, vds, touched)
                      \o RendersOfFold(Tail(reducers), next, rend, vds, touched)

\* one of the renders of the fold throws
RECURSIVE FoldThrows(_, _, _, _)
FoldThrows(reducers, struct, rend, vds) ==
    IF reducers = <<>> THEN FALSE
    ELSE LET next == ApplyReducer(Head(reducers), struct)
         IN  Throws(next, rend, vds) \/ FoldThrows(Tail(reducers), next, rend, vds)

\* a change, focus, input or other event in a field's scope or in the
\* form's own: the touch listeners registered in Form run first, then the
\* intents; each reducer is folded into the state, which emits and renders
DomEvent(ev) ==
    LET reducers == ReducersFrom(1, ev)
        touched  == TouchedBy(Touching(ev), touchedKeys)
    IN  /\ reducers # <<>> => values # NotEmitted
        /\ touchedKeys' = touched
        /\ gate' = gate \ Touching(ev)
        /\ allUntouched' = (allUntouched /\ Touching(ev) = {})
        /\ values' = IF reducers = <<>> THEN values ELSE Fold(reducers, values)
        /\ failed' = (failed \/ FoldThrows(reducers, values, renderer, validators))
        /\ emitted' = IF failed THEN <<>>
                      ELSE RendersOfFold(reducers, values, renderer, validators, touched)
        /\ render' = IF failed' THEN NoRender
                     ELSE IF emitted' = <<>> THEN render
                     ELSE emitted'[Len(emitted')]
        /\ layoutCalls' = LayoutCallsOf(emitted')
        /\ replayed' = NoListener
        /\ UNCHANGED <<configVars, instVars, renderer, validators, submission,
                       domVars, mergeVars, pureVars>>

\* a listener is added to the DOM sink while the stream runs
AddListener ==
    /\ replayed' = [added |-> TRUE, got |-> Replay(render)]
    /\ emitted' = <<>>
    /\ layoutCalls' = <<>>
    /\ UNCHANGED <<configVars, instVars, failed, streamVars, touchVars, render, submission,
                   domVars, mergeVars, pureVars>>

Next ==
    \/ \E s \in StateInputs : StateEmit(s)
    \/ \E r \in RendererInputs : RendererEmit(r)
    \/ \E v \in ValidatorInputs : ValidatorsEmit(v)
    \/ \E key \in UntouchInputs : Untouch(key)
    \/ \E ev \in FieldEvents : DomEvent(ev)

Spec == Init /\ [][Next]_vars

\* SpecListen: the same form, with listeners that are added to the DOM sink
\* after the first one
NextListen == Next \/ AddListener

SpecListen == Init /\ [][NextListen]_vars

----------------------------------------------------------------------------
(* What a render showed *)

Rendered == render.rendered
ModuleFields == {key \in FieldNames : fields[key].module}

\* the arguments field key's view was called with in the latest render
ShownInput(key) == render.viewCalls[key].input
ShownMeta(key) == render.viewCalls[key].meta

\* a step in which a source stream emitted
EmitStep ==
    \/ \E s \in StateInputs : StateEmit(s)
    \/ \E r \in RendererInputs : RendererEmit(r)
    \/ \E v \in ValidatorInputs : ValidatorsEmit(v)

----------------------------------------------------------------------------
(* Claims on Spec *)

\* a step that delivers neither an untouch signal for key nor the signal
\* for all fields
NoUntouchOf(key) ==
    \/ EmitStep
    \/ \E ev \in FieldEvents : DomEvent(ev)
    \/ \E other \in FieldNames \ {key} : Untouch(other)

\* C1: touched(k) is false for every field k until the first change, focus
\* or input event reaches k's source; that event makes touched(k) true, and
\* touched(k) stays true in every step that delivers no untouch signal for
\* k or for all fields.  (The step formulas are written contrapositively: a
\* step that leaves k untouched is no first touch event on k's source, and
\* a step that drops k is no step other than an untouch of k or of all.)
C1_TouchedLifecycle ==
    /\ [](\A key \in FieldNames : key \in gate => key \notin touchedKeys)
    /\ [][\A key \in FieldNames :
            /\ (key \in gate /\ key \notin touchedKeys')
                  => \A ev \in FieldEvents :
                        (ev.type \in TouchTypes /\ Visible(isolateSource(key), ev))
                        => ~DomEvent(ev)
            /\ (key \in touchedKeys /\ key \notin touchedKeys')
                  => ~NoUntouchOf(key)
         ]_vars

\* a field was touched by its first event while another one is still
\* untouched and a third lost its flag again to an untouch signal
C1_Witness ==
    /\ hasIsolate
    /\ "age" \in touchedKeys /\ "age" \notin gate
    /\ "memo" \in gate
    /\ "description" \notin gate /\ "description" \notin touchedKeys

\* C2: once an untouch signal carrying null was delivered and no touch
\* listener has fired since, the touched set is empty and every render
\* passes touched = false to every field's view, whichever fields were
\* touched before.  (The step formula is written contrapositively: a step
\* that ends in a render showing a touched field is no emission of a
\* source stream in such a state.)
C2_UntouchAllShownFalse ==
    /\ [](allUntouched => touchedKeys = {})
    /\ [][ ( /\ allUntouched
             /\ render'.rendered
             /\ \E key \in ModuleFields : render'.viewCalls[key].input.touched )
              => ~EmitStep
         ]_vars

\* both fields with a view were touched once, the set is empty again and the
\* latest render shows both as untouched
C2_Witness ==
    /\ Rendered
    /\ allUntouched
    /\ ModuleFields \cap gate = {}
    /\ \A key \in ModuleFields : ~ShownInput(key).touched

\* C3: the valid flag given to every view of a render is true exactly when
\* every entry of that render's error record is null, and it is false when
\* the validator of some field returned a non-null value.
C3_ValidIffNoError ==
    Rendered =>
        /\ \A key \in ModuleFields :
              ShownMeta(key).valid = (\A other \in FieldNames : render.errors[other] = Null)
        /\ \A key \in ModuleFields :
              ( /\ key \in DOMAIN validators
                /\ ApplyValidator(validators[key], values[key]) # Null )
              => \A shown \in ModuleFields : ~ShownMeta(shown).valid

\* a validator returned the empty message and the form is shown as invalid
C3_Witness ==
    /\ Rendered
    /\ render.errors["age"] = EmptyString
    /\ ~ShownMeta("description").valid

\* C4: every render's error record has an entry for every field, and for a
\* field with a module and a validator the entry is the validator applied
\* to the field's current value, whatever was emitted before.
C4_ErrorsFromCurrentInputs ==
    Rendered =>
        /\ DOMAIN render.errors = FieldNames
        /\ \A key \in ModuleFields :
              key \in DOMAIN validators
              => render.errors[key] = ApplyValidator(validators[key], values[key])

\* the scenario: age -1 under a validator that wants age >= 0
C4_Witness ==
    /\ Rendered
    /\ values["age"] = -1
    /\ validators = [age |-> "nonNegative"]
    /\ render.errors = [age |-> "negative", description |-> Null, memo |-> Null]
    /\ ~render.allValid

\* C5: a field with no validator in the current mapping, or with no module,
\* has the error null in every render.
C5_NoValidatorNoError ==
    Rendered =>
        \A key \in FieldNames :
            (key \notin DOMAIN validators \/ ~fields[key].module)
            => render.errors[key] = Null

\* C6: in every render the error passed to a field's view is null exactly
\* when the field's computed error is null (counts as valid).
C6_ViewErrorNullIffValid ==
    Rendered =>
        \A key \in ModuleFields :
            (ShownInput(key).error = Null) <=> (render.errors[key] = Null)

\* C26: an untouch signal that carries the field name k leaves touched(j)
\* as it was for every other field j, leaves k untouched, and changes
\* nothing when k was not touched.
C26_UntouchOneKeyOnly ==
    [][\A key \in FieldNames :
          Untouch(key) =>
              /\ \A other \in FieldNames \ {key} :
                    (other \in touchedKeys') <=> (other \in touchedKeys)
              /\ key \notin touchedKeys'
              /\ key \notin touchedKeys => touchedKeys' = touchedKeys
      ]_vars

\* the latest render showed age and description as touched; since then age
\* lost its flag and description kept it (a field is touched once only, so
\* no signal for all fields came in between)
C26_Witness ==
    /\ Rendered
    /\ ShownInput("age").touched /\ ShownInput("description").touched
    /\ touchedKeys = {"description"}

\* C27: with a source that supports isolation, a change, focus or input
\* event in the scope of field k makes k touched when it is k's first, and
\* leaves touched(j) as it was for every other field j; a change or focus
\* event leaves the Values object as it was, and an input event leaves the
\* values of the other fields as they were.  (Written contrapositively: a
\* step that does otherwise is no such event.)
C27_TouchOneFieldOnly ==
    [][\A ev \in FieldEvents :
          ~( /\ \A other \in FieldNames \ {ev.scope} :
                   (other \in touchedKeys') <=> (other \in touchedKeys)
             /\ ev.scope \in gate => ev.scope \in touchedKeys'
             /\ ev.type # "input" => values' = values
             /\ values # NotEmitted =>
                   \A other \in FieldNames \ {ev.scope} : values'[other] = values[other] )
          => ~( /\ hasIsolate
                /\ ev.type \in TouchTypes
                /\ ev.scope \in FieldNames
                /\ DomEvent(ev) )
      ]_vars

\* description was touched by its first event, with values on the state
\* stream, and its siblings still wait for theirs
C27_Witness ==
    /\ hasIsolate
    /\ values # NotEmitted
    /\ touchedKeys = {"description"}
    /\ gate = {"age", "memo"}

\* C16: when a field's view returns no node, the tagger hands it on as it
\* is: the layout function is given null for that field, with no isolation
\* descriptor and no key, and so is the rendered output.
C16_AbsentNodeStaysAbsent ==
    Rendered =>
        \A key \in ModuleFields :
            render.viewCalls[key].returned = NullNode
            => /\ render.layoutCall.vnodes[key] = NullNode
               /\ render.vnode.vnodes[key] = NullNode

\* the view of description returned no node, the one of age did
C16_Witness ==
    /\ Rendered
    /\ values["description"] = -1
    /\ render.viewCalls["description"].returned = NullNode
    /\ render.layoutCall.vnodes["description"] = NullNode
    /\ render.layoutCall.vnodes["age"].kind = "vnode"

\* C18: every render calls the layout function exactly once, with a record
\* that has an entry for every field name (the tagged node of the field's
\* view, null for a field without a module), and what the layout function
\* returns is what is emitted.
C18_LayoutCalledOncePerRender ==
    /\ Len(layoutCalls) = Len(emitted)
    /\ \A i \in DOMAIN emitted :
          /\ layoutCalls[i].renderer = renderer
          /\ DOMAIN layoutCalls[i].vnodes = FieldNames
          /\ \A key \in FieldNames :
                layoutCalls[i].vnodes[key] =
                    IF fields[key].module
                    THEN totalIsolateVNode(emitted[i].viewCalls[key].returned,
                                           Namespace, key)
                    ELSE NullNode
          /\ emitted[i].vnode = Layout(layoutCalls[i].renderer, layoutCalls[i].vnodes)
    /\ emitted # <<>> => render = emitted[Len(emitted)]

\* a render was emitted in the latest step: one call, null for memo and a
\* tagged node for age
C18_Witness ==
    /\ Len(emitted) = 1
    /\ Len(layoutCalls) = 1
    /\ layoutCalls[1].vnodes["memo"] = NullNode
    /\ layoutCalls[1].vnodes["age"].kind = "vnode"
    /\ layoutCalls[1].vnodes["age"].isolate.isArray

\* C20: a render exists exactly when values, layout function and validators
\* have each emitted, and the errors, the validity flag, every view input
\* and the layout call of the latest render are all those of the latest
\* values, the latest layout function and the latest validators.
C20_ConsistentSnapshot ==
    /\ Rendered <=> (values # NotEmitted /\ renderer # "notEmitted"
                        /\ validators # NotEmitted)
    /\ Rendered =>
          /\ render.errors = Errors(values, validators)
          /\ render.allValid = (\A key \in FieldNames : render.errors[key] = Null)
          /\ \A key \in ModuleFields :
                /\ ShownInput(key).value = values[key]
                /\ ShownInput(key).error = OrNull(Errors(values, validators)[key])
                /\ ShownMeta(key).valid = AllValid(Errors(values, validators))
          /\ render.layoutCall.renderer = renderer
          /\ render.vnode.renderer = renderer

\* state emitted twice and validators twice; the render shows the latest of
\* each
C20_Witness ==
    /\ Rendered
    /\ values = [age |-> -1, description |-> 1, memo |-> 1]
    /\ validators = [age |-> "nonNegative"]
    /\ render.errors["age"] = "negative"
    /\ ShownInput("age").value = -1
    /\ ~ShownMeta("description").valid

\* C19: a listener added to the rendered-output stream after a render was
\* emitted is handed the latest render at once: in the step that adds it,
\* with no call of the layout function and no emission of a source.
C19_LateListenerReplay ==
    (replayed.added /\ Rendered) =>
        /\ replayed.got = <<render>>
        /\ layoutCalls = <<>>
        /\ emitted = <<>>

\* a listener was added after a render and was handed it
C19_Witness ==
    /\ replayed.added
    /\ Rendered
    /\ replayed.got = <<render>>
    /\ render.errors["age"] = "negative"

----------------------------------------------------------------------------
(* SpecNames: the form of a declaration with an inherited name *)

InitNames == InitWith(InheritedNameFields, TRUE, DefaultOptions)

SpecNames == InitNames /\ [][Next]_vars

----------------------------------------------------------------------------
(* SpecSubmit: the submission stream *)

ctrlEnter(e) == e.ctrlKey /\ e.key = "Enter"
metaEnter(e) == e.metaKey /\ e.key = "Enter"

\* mutant: Enter alone is enough
defaultPredicateAnyEnter(e) == e.key = "Enter"

defaultPredicate(e) == ctrlEnter(e) \/ metaEnter(e)

\* customSubmission.predicate
Predicate(name, e) ==
    CASE name = "defaultPredicate" -> defaultPredicate(e)
      [] name = "ctrlEnter"        -> ctrlEnter(e)

\* mutant: the keydown events are merged without .filter(predicate)
CustomSubmissionUnfiltered(ev) ==
    [i \in 1..Cardinality({key \in options.fields : Visible(isolateSource(key), ev)})
        |-> ev]

\* customSubmission$: one stream per submission field, keydown events on the
\* field's source that pass the predicate, merged
CustomSubmission(ev) ==
    [i \in 1..Cardinality({key \in options.fields :
                              /\ Visible(isolateSource(key), ev)
                              /\ Predicate(options.predicate, ev)})
        |-> ev]

\* a keydown in a field's scope or in the form's own
KeyDown(ev) ==
    /\ dispatched' = ev
    /\ submission' = CustomSubmission(ev)
    /\ UNCHANGED <<configVars, instVars, failed, streamVars, touchVars, render,
                   formEl, injected, bound, mergeVars, callVars, pureVars>>

\* DOM.select('form').element() emits el: the listener injects the native
\* submit listener unless the element carries the flag
ElementEmit(el) ==
    /\ formEl' = el
    /\ injected' = injected \cup {el}
    /\ bound' = IF el \in injected THEN bound ELSE [bound EXCEPT ![el] = @ + 1]
    /\ dispatched' = NoEvent
    /\ submission' = <<>>
    /\ UNCHANGED <<configVars, instVars, failed, streamVars, touchVars, render, mergeVars, callVars, pureVars>>

\* the same listener of an earlier Form instantiation was handed el first:
\* the flag is on the element, the native listener feeds that
\* instantiation's submit$
EarlierFormInject(el) ==
    /\ el \notin injected
    /\ injected' = injected \cup {el}
    /\ dispatched' = NoEvent
    /\ submission' = <<>>
    /\ UNCHANGED <<configVars, instVars, failed, streamVars, touchVars, render,
                   formEl, bound, mergeVars, callVars, pureVars>>

\* the browser dispatches submit on the rendered form element: the native
\* listeners on it call e.preventDefault() and send e to their submit$
NativeSubmit ==
    /\ formEl # "none"
    /\ LET e == [type |-> "submit", scope |-> Root,
                 defaultPrevented |-> formEl \in injected]
       IN  /\ dispatched' = e
           /\ submission' = [i \in 1..bound[formEl] |-> e]
    /\ UNCHANGED <<configVars, instVars, failed, streamVars, touchVars, render,
                   formEl, injected, bound, mergeVars, callVars, pureVars>>

InitSubmit ==
    \E iso \in BOOLEAN, opts \in OptionInputs : InitWith(DeclaredFields, iso, opts)

NextSubmit ==
    \/ \E ev \in KeyEvents : KeyDown(ev)
    \/ \E el \in Elements : ElementEmit(el)
    \/ \E el \in Elements : EarlierFormInject(el)
    \/ NativeSubmit

SpecSubmit == InitSubmit /\ [][NextSubmit]_vars

\* C9: with an input source that supports isolation, a keydown puts exactly
\* one event, itself, on submission$ when it satisfies the predicate and
\* happens in the scope of a custom-submission field, and none otherwise.
C9_CustomSubmission ==
    (hasIsolate /\ dispatched.type = "keydown") =>
        submission =
            IF Predicate(options.predicate, dispatched)
               /\ dispatched.scope \in options.fields
            THEN <<dispatched>>
            ELSE <<>>

\* Ctrl+Enter in the description field submitted the form whose only
\* custom-submission field is description
C9_Witness ==
    /\ hasIsolate
    /\ options.fields = {"description"}
    /\ dispatched.type = "keydown"
    /\ dispatched.scope = "description"
    /\ submission = <<dispatched>>

\* C10: every native submit on the rendered form element puts exactly one
\* event on submission$, with the default suppressed, and submission$
\* carries nothing but native submits and keydowns that satisfy the
\* predicate on a custom-submission field.
C10_NativeSubmitOnce ==
    /\ dispatched.type = "submit" =>
          (submission = <<dispatched>> /\ dispatched.defaultPrevented)
    /\ \A i \in DOMAIN submission :
          \/ submission[i].type = "submit"
          \/ /\ submission[i].type = "keydown"
             /\ Predicate(options.predicate, submission[i])
             /\ \E key \in options.fields : Visible(isolateSource(key), submission[i])

\* C35: no element ever has more than one native submit listener of this
\* form, however often the form element stream emits it; each element the
\* stream emitted has one; and one native submit on the rendered element
\* puts exactly one event on submission$.
C35_ListenerOncePerElement ==
    /\ \A el \in Elements : bound[el] <= 1
    /\ formEl # "none" => bound[formEl] = 1
    /\ dispatched.type = "submit" => Len(submission) = 1

\* C36: a native submit on the form element this instantiation rendered
\* is an event of this instantiation's submission$, whether or not an
\* earlier instantiation was handed the element first.
C36_EveryInstantiationSubmits ==
    (formEl # "none" /\ dispatched.type = "submit")
        => \E i \in DOMAIN submission : submission[i] = dispatched

\* C12: a form made without options submits on no keydown at all; with
\* custom-submission fields and the default predicate, a keydown that
\* reaches the source of such a field submits exactly when its key is Enter
\* and ctrlKey or metaKey is set.
C12_DefaultOptions ==
    dispatched.type = "keydown" =>
        /\ options = DefaultOptions => submission = <<>>
        /\ ( /\ options.predicate = "defaultPredicate"
              /\ \E key \in options.fields : Visible(isolateSource(key), dispatched) )
            => ( submission # <<>>
                 <=> ( /\ dispatched.key = "Enter"
                       /\ (dispatched.ctrlKey \/ dispatched.metaKey) ) )

\* Meta+Enter without Ctrl in the age field of a form whose
\* custom-submission fields are age and description
C12_Witness ==
    /\ hasIsolate
    /\ options = [fields |-> {"age", "description"}, predicate |-> "defaultPredicate"]
    /\ dispatched.type = "keydown"
    /\ dispatched.scope = "age"
    /\ dispatched.key = "Enter" /\ dispatched.metaKey /\ ~dispatched.ctrlKey
    /\ submission = <<dispatched>>

----------------------------------------------------------------------------
(* SpecValidity: the submission stream of a form that renders *)

\* a Values object every validator accepts, and one the validator of age
\* rejects
ValidityStates == {[key \in FieldNames |-> 1], [key \in FieldNames |-> -1]}

InitValidity ==
    InitWith(DeclaredFields, TRUE,
             [fields |-> {"age", "description"}, predicate |-> "defaultPredicate"])

NextValidity ==
    \/ NextSubmit
    \/ \E s \in ValidityStates : StateEmit(s)
    \/ RendererEmit("layout")
    \/ ValidatorsEmit([age |-> "nonNegative"])

SpecValidity == InitValidity /\ [][NextValidity]_vars

\* C11: a native submit on the form element, and a keydown that satisfies
\* the predicate on the source of a custom-submission field, each put an
\* event on submission$, whether the validity flag of the latest render is
\* true or false and whether there is a render at all.
C11_SubmissionNotBlocked ==
    /\ dispatched.type = "submit" => submission # <<>>
    /\ ( /\ dispatched.type = "keydown"
          /\ Predicate(options.predicate, dispatched)
          /\ \E key \in options.fields : Visible(isolateSource(key), dispatched) )
        => submission # <<>>

----------------------------------------------------------------------------
(* SpecMerge: the state-update stream *)

\* the Values objects the fold starts from: with a key of no field, with a
\* field's key missing, and with a key that is a name every object literal
\* inherits
MergeStructs ==
    [FieldNames \cup {"other"} -> Vals]
        \cup [FieldNames \ {"age"} -> Vals]
        \cup [FieldNames \cup {"toString"} -> Vals]

\* the sequences of at most n endos
EndoSeqs(n) == UNION {[1..len -> Endos] : len \in 0..n}

InitMerge ==
    /\ fields \in {DeclaredFields, InheritedNameFields}
    /\ hasIsolate = TRUE
    /\ options = DefaultOptions
    /\ values \in MergeStructs
    /\ values0 = values
    /\ queues0 \in {q \in [FieldNames -> EndoSeqs(MaxUpdates)] :
                       \A key \in FieldNames : ~fields[key].module => q[key] = <<>>}
    /\ pending = queues0
    /\ idPending = {key \in FieldNames : ~fields[key].module}
    /\ renderer = "notEmitted"
    /\ validators = NotEmitted
    /\ touchedKeys = {}
    /\ gate = FieldNames
    /\ allUntouched = FALSE
    /\ render = NoRender
    /\ dispatched = NoEvent
    /\ submission = <<>>
    /\ formEl = "none"
    /\ injected = {}
    /\ bound = NoNativeListener
    /\ InitCalls
    /\ InitPure
    /\ InitInst

\* field key's intent emits its next endo; reducer$ carries the field's
\* reducer and the host folds it into the state
Deliver(key) ==
    /\ pending[key] # <<>>
    /\ values' = ApplyReducer(FieldReducer(key, Head(pending[key])), values)
    /\ pending' = [pending EXCEPT ![key] = Tail(@)]
    /\ UNCHANGED <<configVars, instVars, failed, renderer, validators, touchVars, render,
                   submission, domVars, idPending, values0, queues0,
                   callVars, pureVars>>

\* the Stream.of(id) of a field without a module emits: the state the
\* host folds it into is the object it was, and no render follows
DeliverId(key) ==
    /\ key \in idPending
    /\ values' = ApplyReducer(IdReducer, values)
    /\ idPending' = idPending \ {key}
    /\ emitted' = <<>>
    /\ layoutCalls' = <<>>
    /\ replayed' = NoListener
    /\ UNCHANGED <<configVars, instVars, failed, renderer, validators, touchVars, render,
                   submission, domVars, pending, values0, queues0, pureVars>>

NextMerge ==
    \/ \E key \in FieldNames : Deliver(key)
    \/ \E key \in FieldNames : DeliverId(key)

SpecMerge == InitMerge /\ [][NextMerge]_vars

\* C7: a reducer that comes from field k's intent keeps the key set of the
\* Values object it is applied to, sets key k to endo(values[k]) and leaves
\* every other key as it was; the reducer of a field without a module
\* changes nothing, so a key with no field module never changes.
C7_ReducerFrame ==
    /\ [](\A key \in DOMAIN values0 \ ModuleFields :
             key \in DOMAIN values /\ values[key] = values0[key])
    /\ [][ /\ \A key \in ModuleFields :
                Deliver(key) =>
                    /\ DOMAIN values' = DOMAIN values
                    /\ \A other \in DOMAIN values :
                          values'[other] =
                              IF other = key
                              THEN ApplyEndo(Head(pending[key]), values[key])
                              ELSE values[other]
           /\ \A key \in FieldNames \ ModuleFields :
                DeliverId(key) => values' = values
         ]_vars

\* C33: a reducer that comes from field k's intent keeps the key set of the
\* Values object it is applied to, and applied to an object without key k
\* it returns an object equal to the one it was given.
C33_MissingKeyDropsUpdate ==
    [][\A key \in ModuleFields :
          Deliver(key) =>
              /\ DOMAIN values' = DOMAIN values
              /\ key \notin DOMAIN values => values' = values
      ]_vars

\* all updates of one field applied to a Values object, in the order the
\* field emitted them
RECURSIVE ApplyQueue(_, _, _)
ApplyQueue(key, endos, struct) ==
    IF endos = <<>> THEN struct
    ELSE ApplyQueue(key, Tail(endos),
                    ApplyReducer(FieldReducer(key, Head(endos)), struct))

\* the updates applied field by field, in the order of Object.keys(fields)
RECURSIVE FieldByField(_, _)
FieldByField(i, struct) ==
    IF i > Len(FieldOrder) THEN struct
    ELSE FieldByField(i + 1,
                      ApplyQueue(FieldOrder[i], queues0[FieldOrder[i]], struct))

\* C8: whatever the interleaving of the fields' update streams, once every
\* update was applied the Values object is the same: the one that applying
\* the updates field by field gives.
C8_MergeOrderIndependent ==
    ((\A key \in FieldNames : pending[key] = <<>>) /\ idPending = {})
        => values = FieldByField(1, values0)

----------------------------------------------------------------------------
(* SpecEvolve: evolveC as a function of its two arguments *)

\* the keys of the structs and the transformations, one of them a name
\* every object literal inherits
EvolveKeys == {"age", "description", "toString"}
EvolveStructs == UNION {[keys -> Vals] : keys \in SUBSET EvolveKeys}
EvolveTransformations == UNION {[keys -> Endos] : keys \in SUBSET EvolveKeys}

InitEvolve ==
    /\ InitForm(DeclaredFields, TRUE, DefaultOptions)
    /\ evolveArgs \in [transformations : EvolveTransformations, struct : EvolveStructs]
    /\ evolveResult = NoCall
    /\ calls = <<>>

\* evolveC(transformations)(struct): the loop writes newStruct only, the
\* struct it was handed is as it was
EvolveCall ==
    /\ evolveResult = NoCall
    /\ evolveResult' =
          [called    |-> TRUE,
           struct    |-> evolveArgs.struct,
           newStruct |-> evolveC(evolveArgs.transformations, evolveArgs.struct)]
    /\ UNCHANGED <<configVars, instVars, failed, streamVars, touchVars, render, submission,
                   domVars, mergeVars, callVars, evolveArgs, calls>>

NextEvolve == EvolveCall

SpecEvolve == InitEvolve /\ [][NextEvolve]_vars

\* C13: evolveC(transformations)(struct) returns a struct with exactly the
\* keys of struct, in which a key of transformations holds f(struct[key])
\* and every other key holds struct[key]; struct itself is not changed.
C13_EvolveCContract ==
    evolveResult.called =>
        /\ DOMAIN evolveResult.newStruct = DOMAIN evolveArgs.struct
        /\ \A key \in DOMAIN evolveArgs.struct :
              evolveResult.newStruct[key] =
                  IF key \in DOMAIN evolveArgs.transformations
                  THEN ApplyEndo(evolveArgs.transformations[key], evolveArgs.struct[key])
                  ELSE evolveArgs.struct[key]
        /\ evolveResult.struct = evolveArgs.struct

\* C14: evolveC with the empty transformation mapping returns a struct
\* equal to its input.
C14_EvolveCEmptyIsIdentity ==
    (evolveResult.called /\ DOMAIN evolveArgs.transformations = {})
        => evolveResult.newStruct = evolveArgs.struct

----------------------------------------------------------------------------
(* SpecTag: totalIsolateVNode as a function of its three arguments *)

\* the most calls of one behaviour
MaxCalls == 2

\* a name that holds the characters JSON.stringify escapes
QuotedName == "a\"},{\"type\":\"total\",\"scope\":\"b"

\* the namespaces of the forms and the field names
TagNamespaces ==
    { <<>>, Namespace, <<[type |-> "total", scope |-> "a"]>> }
TagScopes == {"age", "b", QuotedName}

\* a descriptor a node's own component gave it, deeper than the form's
DeeperIsolate ==
    [isArray |-> TRUE,
     scopes  |-> Namespace \o <<[type |-> "total", scope |-> "age"],
                                [type |-> "total", scope |-> "inner"]>>]

\* the nodes a view may return: none, nodes with neither descriptor nor
\* key, with a key ("" is a key too), with a descriptor, with both
TagNodes ==
    { NullNode,
      VNode(<<>>, <<>>, NoIsolate, NoKey),
      VNode(<<"other">>, <<>>, NoIsolate, NoKey),
      VNode(<<>>, <<>>, NoIsolate, [defined |-> TRUE, value |-> "k"]),
      VNode(<<>>, <<>>, NoIsolate, [defined |-> TRUE, value |-> ""]),
      VNode(<<>>, <<>>, DeeperIsolate, NoKey),
      VNode(<<>>, <<>>, DeeperIsolate, [defined |-> TRUE, value |-> "k"]) }

InitTag ==
    /\ InitForm(DeclaredFields, TRUE, DefaultOptions)
    /\ evolveArgs = NoCall
    /\ evolveResult = NoCall
    /\ calls = <<>>

\* totalIsolateVNode is called with one of the nodes, or with the node an
\* earlier call returned
TagCall(node, namespace, scope) ==
    /\ Len(calls) < MaxCalls
    /\ calls' = Append(calls,
                       [node      |-> node,
                        namespace |-> namespace,
                        scope     |-> scope,
                        result    |-> totalIsolateVNode(node, namespace, scope)])
    /\ UNCHANGED <<configVars, instVars, failed, streamVars, touchVars, render, submission,
                   domVars, mergeVars, callVars, evolveArgs, evolveResult>>

NextTag ==
    \E node \in TagNodes \cup {calls[i].result : i \in DOMAIN calls},
       namespace \in TagNamespaces, scope \in TagScopes :
        TagCall(node, namespace, scope)

SpecTag == InitTag /\ [][NextTag]_vars

\* a node with no descriptor and no key of its own
Bare(node) == node.kind = "vnode" /\ ~node.isolate.isArray /\ ~node.key.defined

\* C15: a node that carries an isolation descriptor keeps it when it is
\* tagged, and tagging the result of a tagging again, with whatever
\* namespace and scope, returns it with the same descriptor and the same key.
C15_TaggingKeepsDescriptor ==
    /\ \A i \in DOMAIN calls :
          (calls[i].node.kind = "vnode" /\ calls[i].node.isolate.isArray)
          => calls[i].result.isolate = calls[i].node.isolate
    /\ \A i, j \in DOMAIN calls :
          (i < j /\ calls[i].node.kind = "vnode" /\ calls[j].node = calls[i].result)
          => /\ calls[j].result.isolate = calls[i].result.isolate
             /\ calls[j].result.key = calls[i].result.key

\* a node tagged in the field of a form was tagged again with a shorter
\* namespace and another scope
C15_Witness ==
    /\ Len(calls) = 2
    /\ Bare(calls[1].node)
    /\ calls[2].node = calls[1].result
    /\ Len(calls[2].namespace) < Len(calls[1].namespace)
    /\ calls[2].scope # calls[1].scope
    /\ calls[2].result.isolate.scopes
          = Append(calls[1].namespace, [type |-> "total", scope |-> calls[1].scope])

\* C17: for nodes with no descriptor and no key of their own, two calls
\* with the same namespace and field name assign the same descriptor and
\* the same key, and two calls that differ in the namespace or in the field
\* name assign different descriptors and different keys.
C17_KeyInjective ==
    \A i, j \in DOMAIN calls :
        (Bare(calls[i].node) /\ Bare(calls[j].node)) =>
            LET same == /\ calls[i].namespace = calls[j].namespace
                        /\ calls[i].scope = calls[j].scope
            IN  /\ same <=> (calls[i].result.isolate = calls[j].result.isolate)
                /\ same <=> (calls[i].result.key = calls[j].result.key)

\* field b of the form in namespace a, and a field of the root form whose
\* name spells out the rest of that descriptor
C17_Witness ==
    /\ Len(calls) = 2
    /\ Bare(calls[1].node) /\ Bare(calls[2].node)
    /\ calls[1].namespace = <<[type |-> "total", scope |-> "a"]>>
    /\ calls[1].scope = "b"
    /\ calls[2].namespace = <<>>
    /\ calls[2].scope = QuotedName
    /\ calls[1].result.key.value # calls[2].result.key.value

----------------------------------------------------------------------------
(* SpecLifetime: the form after its sinks lose their listeners *)

\* the listener of a sink is removed.  xstream stops the producers of that
\* sink; the listeners Form added itself with addListener (to untouch$, to
\* the touch streams, to the form element stream) are no part of any sink
\* and no removeListener is in Form
Unsubscribe(sink) ==
    /\ sink \in subscribers
    /\ subscribers' = subscribers \ {sink}
    /\ UNCHANGED <<configVars, formResult, intentCalls, listeners, peer, failed,
                   streamVars, touchVars, render, submission, domVars, mergeVars,
                   callVars, pureVars>>

\* change, focus and blur events: events no intent reacts to
TouchEvents == {ev \in FieldEvents : ev.type # "input"}

NextLifetime ==
    \/ \E sink \in Sinks : Unsubscribe(sink)
    \/ \E key \in UntouchInputs : "untouch$" \in listeners /\ Untouch(key)
    \/ \E ev \in TouchEvents : DomEvent(ev)
    \/ \E el \in Elements : "form.element" \in listeners /\ ElementEmit(el)

SpecLifetime == Init /\ [][NextLifetime]_vars

\* C21: once every sink of the form has lost its listener, no listener of
\* the Form instantiation is left on untouch$, on a field's source or on the
\* form element stream, and no later step changes the touched set.
C21_NoSubscriptionRemains ==
    /\ [](subscribers = {} => (listeners = {} /\ gate = {}))
    /\ [][subscribers = {} => touchedKeys' = touchedKeys]_vars

----------------------------------------------------------------------------
(* SpecThrow: the form under validators that throw *)

\* the emissions of validators$: the validator of age or the one of
\* description throws for a negative value
ThrowingValidatorInputs ==
    { <<>>,
      [age |-> "throwing"],
      [age |-> "nonNegative", description |-> "throwing"] }

NextThrow ==
    \/ \E s \in StateInputs : StateEmit(s)
    \/ \E r \in RendererInputs : RendererEmit(r)
    \/ \E v \in ThrowingValidatorInputs : ValidatorsEmit(v)
    \/ \E key \in UntouchInputs : Untouch(key)
    \/ \E ev \in FieldEvents : DomEvent(ev)

SpecThrow == Init /\ [][NextThrow]_vars

\* values, layout function and validators have each emitted, and the
\* validator of a field with a module throws for the field's value
SnapshotThrows(vals, rend, vds) ==
    /\ vals # NotEmitted /\ rend # "notEmitted" /\ vds # NotEmitted
    /\ \E key \in ModuleFields \cap DOMAIN vds :
          vds[key] = "throwing" /\ vals[key] < 0

\* C22: when an emission of values, layout function or validators leads to
\* a render in which a validator throws, the step emits no render and the
\* rendered-output stream has failed; once it has failed, no step emits a
\* render.
C22_ValidatorThrowPropagates ==
    /\ [][ ( /\ <<values, renderer, validators>>' # <<values, renderer, validators>>
             /\ SnapshotThrows(values', renderer', validators') )
              => (failed' /\ emitted' = <<>>)
         ]_vars
    /\ [][failed => (failed' /\ emitted' = <<>>)]_vars

\* the validator of age threw for -1; since then age became 1 and the
\* validators were replaced, and still no render is delivered
C22_Witness ==
    /\ failed
    /\ values # NotEmitted /\ values["age"] = 1 /\ values["description"] = 1
    /\ renderer = "layout"
    /\ validators = <<>>
    /\ emitted = <<>>
    /\ ~Rendered

\* a step of SpecThrow in which a source stream emitted
ThrowEmitStep ==
    \/ \E s \in StateInputs : StateEmit(s)
    \/ \E r \in RendererInputs : RendererEmit(r)
    \/ \E v \in ThrowingValidatorInputs : ValidatorsEmit(v)

\* values, layout function and validators have each emitted
AllEmitted == values # NotEmitted /\ renderer # "notEmitted" /\ validators # NotEmitted

----------------------------------------------------------------------------
(* SpecCall: the call of Form and the form it returns *)

\* the declarations form() is called with
CallDeclarations ==
    {DeclaredFields, InheritedNameFields, ThrowingIntentFields, AnyEffectFields}

\* the emissions of validators$: mappings with a key that is no field name
CallValidators ==
    { <<>>,
      [age |-> "nonNegative"],
      [age |-> "nonNegative", other |-> "nonNegative"],
      [age |-> "nonNegative", memo |-> "nonNegative"],
      [other |-> "throwing"] }

\* form(fields) has returned the component, Form was not called yet
InitCall ==
    /\ fields \in CallDeclarations
    /\ hasIsolate = TRUE
    /\ options = DefaultOptions
    /\ values = NotEmitted
    /\ renderer = "notEmitted"
    /\ validators = NotEmitted
    /\ touchedKeys = {}
    /\ gate = {}
    /\ allUntouched = FALSE
    /\ render = NoRender
    /\ dispatched = NoEvent
    /\ submission = <<>>
    /\ formEl = "none"
    /\ injected = {}
    /\ bound = NoNativeListener
    /\ pending = [key \in FieldNames |-> <<>>]
    /\ idPending = {}
    /\ values0 = NotEmitted
    /\ queues0 = [key \in FieldNames |-> <<>>]
    /\ InitCalls
    /\ InitPure
    /\ formResult = NotCalled
    /\ intentCalls = <<>>
    /\ listeners = {}
    /\ subscribers = {}
    /\ peer = NoPeer
    /\ failed = FALSE

\* Form(sources): the listeners on untouch$ and on the touch streams are
\* added, the intents are called in the order of Object.keys(fields), a
\* Stream.of(id) is made for each field without a module, the listener on
\* the form element stream is added and the sinks are returned; the host
\* adds its listeners to the sinks it was returned
FormCall ==
    /\ ~formResult.called
    /\ formResult' = FormResult
    /\ intentCalls' = IntentCallsFrom(1)
    /\ listeners' = ListenersAdded
    /\ gate' = FieldNames
    /\ subscribers' = formResult'.sinks
    /\ idPending' = IF FormThrows THEN {}
                    ELSE {key \in FieldNames : ~fields[key].module}
    /\ UNCHANGED <<configVars, peer, failed, streamVars, touchedKeys, allUntouched,
                   render, submission, domVars, pending, values0, queues0,
                   callVars, pureVars>>

\* the call of Form has returned its sinks
Returned == formResult.called /\ ~formResult.threw

NextCall ==
    \/ FormCall
    \/ \E s \in StateInputs : Returned /\ StateEmit(s)
    \/ \E r \in RendererInputs : Returned /\ RendererEmit(r)
    \/ \E v \in CallValidators : Returned /\ ValidatorsEmit(v)
    \/ \E ev \in FieldEvents : Returned /\ DomEvent(ev)
    \/ \E key \in FieldNames : Returned /\ DeliverId(key)

SpecCall == InitCall /\ [][NextCall]_vars

\* C23: when the intent of a field module throws in the call of Form, the
\* call fails and returns no sinks, and the intent of no later field is
\* called.
C23_ThrowingIntentIsFatal ==
    ( /\ formResult.called
      /\ \E key \in FieldNames : fields[key].module /\ fields[key].intent = "throws" )
    => /\ formResult.threw
       /\ formResult.sinks = {}
       /\ subscribers = {}
       /\ \A i \in DOMAIN intentCalls : intentCalls[i].threw => i = Len(intentCalls)
       /\ \E i \in DOMAIN intentCalls : intentCalls[i].threw

\* the intent of age was called and returned, the one of description threw,
\* the one of memo was never called
C23_Witness ==
    /\ fields = ThrowingIntentFields
    /\ formResult.called /\ formResult.threw
    /\ Len(intentCalls) = 2
    /\ intentCalls[1].key = "age" /\ ~intentCalls[1].threw
    /\ intentCalls[2].key = "description" /\ intentCalls[2].threw

\* C24: when the validator mapping has a key that is no field name, the
\* form fails: the call of Form has thrown, or the rendered output has
\* failed.
C24_UndeclaredValidatorFailsFast ==
    (validators # NotEmitted /\ DOMAIN validators \ FieldNames # {})
        => (formResult.threw \/ failed)

\* C25: every sink channel a field module returns beyond state and DOM is a
\* sink of the form.
C25_OtherSinksExposed ==
    formResult.called =>
        \A key \in ModuleFields : fields[key].otherSinks \subseteq formResult.sinks

\* C30: the intent of a field with shouldNotIsolate is called with the raw
\* source, the intent of every other field with the source isolated under
\* the field's name; an input event changes the Values object only at the
\* keys of the fields whose intent source the event is on.
C30_IntentSourceAndOwnKey ==
    /\ [](\A i \in DOMAIN intentCalls :
             intentCalls[i].source =
                 IF fields[intentCalls[i].key].shouldNotIsolate THEN Root
                 ELSE intentCalls[i].key)
    /\ [][\A ev \in FieldEvents :
            (ev.type = "input" /\ Returned /\ DomEvent(ev)) =>
                \A key \in DOMAIN values :
                    values'[key] # values[key]
                    => /\ key \in ModuleFields
                       /\ ev.scope = (IF fields[key].shouldNotIsolate THEN Root ELSE key)
         ]_vars

\* C34: for a field whose module is null or undefined, the call of Form
\* calls no intent and leaves exactly one identity reducer to be emitted,
\* which leaves the Values object as it is and is not followed by another;
\* every render hands the layout function null for the field and holds
\* null as its error, with or without a validator under its name.
C34_AbsentModule ==
    /\ [](\A key \in FieldNames \ ModuleFields :
            /\ \A i \in DOMAIN intentCalls : intentCalls[i].key # key
            /\ Rendered =>
                  (render.layoutCall.vnodes[key] = NullNode /\ render.errors[key] = Null)
            /\ \A i \in DOMAIN emitted :
                  /\ emitted[i].layoutCall.vnodes[key] = NullNode
                  /\ emitted[i].errors[key] = Null)
    /\ [][\A key \in FieldNames \ ModuleFields :
            /\ (~formResult.called /\ formResult'.called /\ ~formResult'.threw)
                  => key \in idPending'
            /\ (formResult.called /\ key \notin idPending) => key \notin idPending'
            /\ (key \in idPending /\ key \notin idPending') => values' = values
         ]_vars

\* the identity reducer of memo was emitted, and a render was made while a
\* validator under the name memo rejects memo's value
C34_Witness ==
    /\ Returned
    /\ "memo" \in FieldNames \ ModuleFields
    /\ "memo" \notin idPending
    /\ Rendered
    /\ "memo" \in DOMAIN validators
    /\ ApplyValidator(validators["memo"], values["memo"]) # Null
    /\ render.errors["memo"] = Null
    /\ render.layoutCall.vnodes["memo"] = NullNode

----------------------------------------------------------------------------
(* SpecPeer: two instantiations of one form component *)

\* Form was called twice, each call with sources of its own
InitPeer ==
    /\ fields = DeclaredFields
    /\ hasIsolate = TRUE
    /\ options = DefaultOptions
    /\ values = NotEmitted
    /\ renderer = "notEmitted"
    /\ validators = NotEmitted
    /\ touchedKeys = {}
    /\ gate = FieldNames
    /\ allUntouched = FALSE
    /\ render = NoRender
    /\ dispatched = NoEvent
    /\ submission = <<>>
    /\ formEl = "none"
    /\ injected = {}
    /\ bound = NoNativeListener
    /\ pending = [key \in FieldNames |-> <<>>]
    /\ idPending = {}
    /\ values0 = NotEmitted
    /\ queues0 = [key \in FieldNames |-> <<>>]
    /\ InitCalls
    /\ InitPure
    /\ formResult = FormResult
    /\ intentCalls = IntentCallsFrom(1)
    /\ listeners = ListenersAdded
    /\ subscribers = Sinks
    /\ peer = [made |-> TRUE, touchedKeys |-> {}, gate |-> FieldNames]
    /\ failed = FALSE

\* the listener the second call added to its untouch$ runs: it changes the
\* set that call made
PeerUntouch(key) ==
    /\ peer.made
    /\ IF TouchedSetOf(2) = TouchedSetOf(1)
       THEN /\ touchedKeys' = UntouchedBy(key, touchedKeys)
            /\ peer' = peer
       ELSE /\ peer' = [peer EXCEPT !.touchedKeys = UntouchedBy(key, @)]
            /\ touchedKeys' = touchedKeys
    /\ emitted' = <<>>
    /\ layoutCalls' = <<>>
    /\ replayed' = NoListener
    /\ UNCHANGED <<configVars, formResult, intentCalls, listeners, subscribers, failed,
                   streamVars, gate, allUntouched, render, submission, domVars,
                   mergeVars, pureVars>>

\* a change, focus or input event on the DOM source of the second call: the
\* touch listeners that call added run
PeerTouch(ev) ==
    LET keys == {key \in peer.gate :
                    ev.type \in TouchTypes /\ Visible(isolateSource(key), ev)}
    IN  /\ peer.made
        /\ IF TouchedSetOf(2) = TouchedSetOf(1)
           THEN /\ touchedKeys' = TouchedBy(keys, touchedKeys)
                /\ peer' = [peer EXCEPT !.gate = @ \ keys]
           ELSE /\ peer' = [peer EXCEPT !.touchedKeys = TouchedBy(keys, @),
                                        !.gate = @ \ keys]
                /\ touchedKeys' = touchedKeys
        /\ emitted' = <<>>
        /\ layoutCalls' = <<>>
        /\ replayed' = NoListener
        /\ UNCHANGED <<configVars, formResult, intentCalls, listeners, subscribers,
                       failed, streamVars, gate, allUntouched, render, submission,
                       domVars, mergeVars, pureVars>>

\* focus events, one for each scope
FocusEvents == {ev \in FieldEvents : ev.type = "focus"}

NextPeer ==
    \/ \E s \in ValidityStates : StateEmit(s)
    \/ RendererEmit("layout")
    \/ ValidatorsEmit(<<>>)
    \/ \E key \in UntouchInputs : Untouch(key)
    \/ \E ev \in FocusEvents : DomEvent(ev)
    \/ \E key \in UntouchInputs : PeerUntouch(key)
    \/ \E ev \in FocusEvents : PeerTouch(ev)

SpecPeer == InitPeer /\ [][NextPeer]_vars

\* a step in which a listener of the second call ran, and one in which a
\* listener of the first did
PeerStep ==
    \/ \E key \in UntouchInputs : PeerUntouch(key)
    \/ \E ev \in FocusEvents : PeerTouch(ev)
OwnStep ==
    \/ \E key \in UntouchInputs : Untouch(key)
    \/ \E ev \in FocusEvents : DomEvent(ev)

\* C29: an untouch signal or a touch event delivered to one instantiation
\* leaves the touched set of the other as it is, and a render of an
\* instantiation shows no field as touched whose first touch event that
\* instantiation has not had.  (The step formulas are written
\* contrapositively.)
C29_TouchedSetOwned ==
    /\ [](Rendered => \A key \in ModuleFields \cap gate : ~ShownInput(key).touched)
    /\ [][touchedKeys' # touchedKeys => ~PeerStep]_vars
    /\ [][peer'.touchedKeys # peer.touchedKeys => ~OwnStep]_vars

\* age was touched in the second instantiation and description in the
\* first, whose latest render shows description as touched and age as not
C29_Witness ==
    /\ peer.made
    /\ peer.touchedKeys = {"age"}
    /\ touchedKeys = {"description"}
    /\ "age" \in gate
    /\ Rendered
    /\ ShownInput("description").touched
    /\ ~ShownInput("age").touched

\* C32: a step that emits a render or changes the latest render is neither
\* the delivery of an untouch signal nor a DOM event that no intent turns
\* into a reducer; and the touched flag each view of an emitted render was
\* given is the field's membership in the touched set of that moment.
C32_TouchAloneRendersNothing ==
    /\ [](\A i \in DOMAIN emitted : \A key \in ModuleFields :
            emitted[i].viewCalls[key].input.touched = (key \in touchedKeys))
    /\ [][(emitted' # <<>> \/ render' # render) =>
            /\ \A key \in UntouchInputs : ~Untouch(key)
            /\ \A ev \in FieldEvents : ReducersFrom(1, ev) = <<>> => ~DomEvent(ev)
         ]_vars

\* no render was emitted in the latest step, and the latest render is out
\* of date both ways: age was touched since and is shown as untouched,
\* description was cleared since and is shown as touched
C32_Witness ==
    /\ Rendered
    /\ emitted = <<>>
    /\ "age" \in touchedKeys
    /\ ~ShownInput("age").touched
    /\ "description" \notin touchedKeys
    /\ ShownInput("description").touched

----------------------------------------------------------------------------
(* SpecGate: the touched tracker of a form that has rendered *)

\* the form runs: the state stream, renderer$ and validators$ have each
\* emitted once and the first render was made, with no field touched
InitGate ==
    /\ fields = DeclaredFields
    /\ hasIsolate = TRUE
    /\ options = DefaultOptions
    /\ values \in StateInputs
    /\ renderer = "layout"
    /\ validators \in {<<>>, [age |-> "nonNegative"]}
    /\ touchedKeys = {}
    /\ gate = FieldNames
    /\ allUntouched = FALSE
    /\ render = RenderOf(values, renderer, validators, touchedKeys)
    /\ dispatched = NoEvent
    /\ submission = <<>>
    /\ formEl = "none"
    /\ injected = {}
    /\ bound = NoNativeListener
    /\ pending = [key \in FieldNames |-> <<>>]
    /\ idPending = {}
    /\ values0 = NotEmitted
    /\ queues0 = [key \in FieldNames |-> <<>>]
    /\ InitCalls
    /\ InitPure
    /\ InitInst

\* the events in the scopes of age and of memo: of the two, only age has an
\* intent, so a render in a step of SpecGate comes from an input event of age
GateEvents == {ev \in FieldEvents : ev.scope \in {"age", "memo"}}

NextGate ==
    \/ \E key \in UntouchInputs : Untouch(key)
    \/ \E ev \in GateEvents : DomEvent(ev)

SpecGate == InitGate /\ [][NextGate]_vars

\* C31: a field is added to the touched set only by the first change, focus
\* or input event on its source: a touched field's listener is gone, no
\* listener comes back, and a field whose listener is gone and that is not
\* in the set is not in the set after any step.
C31_OneShotGate ==
    /\ [](\A key \in FieldNames : key \in touchedKeys => key \notin gate)
    /\ [][gate' \subseteq gate]_vars
    /\ [][\A key \in FieldNames :
            (key \notin gate /\ key \notin touchedKeys) => key \notin touchedKeys'
         ]_vars

\* the latest step was an input event of age that led to a render; age had
\* been touched and cleared before, and the render shows it as untouched
C31_Witness ==
    /\ emitted = <<render>>
    /\ "age" \notin gate
    /\ "age" \notin touchedKeys
    /\ ~ShownInput("age").touched

----------------------------------------------------------------------------
(* SpecShared: the form on an input source without isolateSource *)

\* the source has no isolateSource: every field is handed the source itself
InitShared == \E opts \in OptionInputs : InitWith(DeclaredFields, FALSE, opts)

NextShared ==
    \/ \E s \in ValidityStates : StateEmit(s)
    \/ \E key \in UntouchInputs : Untouch(key)
    \/ \E ev \in FieldEvents : DomEvent(ev)
    \/ \E ev \in KeyEvents : KeyDown(ev)

SpecShared == InitShared /\ [][NextShared]_vars

\* C37: on a source without isolateSource, the first change, focus or
\* input event, in whatever scope, puts every field of the mapping in the
\* touched set (the touch listeners fire all at once, never one by one),
\* and a keydown puts on submission$ one copy of itself per
\* custom-submission field when it satisfies the predicate, none otherwise.
C37_SharedSource ==
    /\ [][~hasIsolate =>
            /\ \A ev \in FieldEvents :
                  (ev.type \in TouchTypes /\ gate = FieldNames /\ DomEvent(ev))
                      => touchedKeys' = FieldNames
            /\ gate' # gate =>
                  (gate = FieldNames /\ gate' = {} /\ touchedKeys' = FieldNames)
         ]_vars
    /\ []((~hasIsolate /\ dispatched.type = "keydown") =>
            submission =
                IF Predicate(options.predicate, dispatched)
                THEN [i \in 1..Cardinality(options.fields) |-> dispatched]
                ELSE <<>>)

\* every field was touched by one event, and a keydown in the scope of
\* memo, which is no custom-submission field, gave two submission events
C37_Witness ==
    /\ ~hasIsolate
    /\ gate = {}
    /\ touchedKeys = FieldNames
    /\ dispatched.type = "keydown"
    /\ dispatched.scope = "memo"
    /\ Cardinality(options.fields) = 2
    /\ Len(submission) = 2

====
